---- MODULE Spec2Model ----
(***************************************************************************)
(* Model of the kelvin evaluation engine (src/evaluator/evaluator.py):     *)
(*   - Evaluation.create_test / Evaluation.load_tests  (test registry),    *)
(*   - Evaluation.evaluate                             (one test run),     *)
(*   - evaluate                                        (pipeline stages).  *)
(* Texts are sequences of one-character strings, byte strings sequences of *)
(* byte values, optional values sets with at most one element.             *)
(***************************************************************************)
EXTENDS Integers, Sequences, FiniteSets, TLC

VARIABLES
    procs,        \* the evaluate calls in progress on the host
    pc,           \* position of each evaluate call
    test,         \* the Test each call evaluates
    efilters,     \* Evaluation.filters, the task-wide filter chain
    result,       \* the result dict each call builds
    meta,         \* the host-wide file /tmp/meta: who wrote it, its lines
    hist,         \* per call: what the run returned and what the call read
    tests_dict,   \* Evaluation.tests_dict, in insertion order
    load,         \* position and inputs of load_tests
    pipe          \* position and result list of the entry point evaluate

vars == <<procs, pc, test, efilters, result, meta, hist, tests_dict, load, pipe>>

evalVars == <<procs, pc, test, efilters, result, meta, hist>>

\* ------------------------------------------------------------ bounds
MaxCap == 2          \* stdio_max_bytes of a test ranges over 1..MaxCap
MaxFiles == 2        \* a test declares at most MaxFiles output files
MaxConfTests == 2    \* entries of the `tests:` list of config.yml
MaxGenTests == 1     \* create_test calls made by the gen_tests hook

\* ------------------------------------------------------------ options
None == {}
Some(v) == {v}
Get(o) == CHOOSE v \in o : TRUE

\* ------------------------------------------------------------ texts
Whitespace == {" ", "\n"}

RECURSIVE LStrip(_)
LStrip(s) ==
    IF s # <<>> /\ Head(s) \in Whitespace THEN LStrip(Tail(s)) ELSE s

RECURSIVE RStrip(_)
RStrip(s) ==
    IF s # <<>> /\ s[Len(s)] \in Whitespace
    THEN RStrip(SubSeq(s, 1, Len(s) - 1)) ELSE s

\* str.strip()
Strip(s) == LStrip(RStrip(s))

\* str.replace('-', '')
IsNotHyphen(c) == c # "-"
RemoveHyphens(s) == SelectSeq(s, IsNotHyphen)

\* bytes[0:n]
Truncate(bytes, n) == SubSeq(bytes, 1, IF Len(bytes) < n THEN Len(bytes) ELSE n)

\* bytes.decode('utf-8') on ASCII bytes
Chr == (97 :> "a") @@ (32 :> " ")
Decode(bytes) == [i \in 1..Len(bytes) |-> Chr[bytes[i]]]

\* ------------------------------------------------------------ filters
\* filters.apply_filters: the named filters applied in order; the one filter
\* of the model trims trailing whitespace.
apply_filter(text, f) == IF f = "rstrip" THEN RStrip(text) ELSE text

RECURSIVE apply_filters(_, _)
apply_filters(text, used_filters) ==
    IF used_filters = <<>> THEN text
    ELSE apply_filters(apply_filter(text, Head(used_filters)), Tail(used_filters))

compare(actual, expected, used_filters) ==
    apply_filters(actual, used_filters) = apply_filters(expected, used_filters)

FilterChains == {<<>>, <<"rstrip">>}

\* ------------------------------------------------------------ run metadata
\* Lines of /tmp/meta as isolate writes them, "key:value\n".
LnCgMem == <<"c", "g", "-", "m", "e", "m", ":", "6", "4", "\n">>
LnExit0 == <<"e", "x", "i", "t", "c", "o", "d", "e", ":", "0", "\n">>
LnExit3 == <<"e", "x", "i", "t", "c", "o", "d", "e", ":", "3", "\n">>
LnExitsig == <<"e", "x", "i", "t", "s", "i", "g", ":", "1", "1", "\n">>
LnStatusRE == <<"s", "t", "a", "t", "u", "s", ":", "R", "E", "\n">>
LnStatusSG == <<"s", "t", "a", "t", "u", "s", ":", "S", "G", "\n">>

MetaOk == <<LnCgMem, LnExit0>>
MetaRE == <<LnCgMem, LnExit3, LnStatusRE>>
MetaSG == <<LnCgMem, LnExitsig, LnStatusSG>>

\* What one isolate run gives back: the return code of the isolate process
\* (0: the program exited with 0; 1: it exited with another code or was
\* killed) and the metadata it leaves.
RunOutcomes ==
    { [rc |-> 0, meta |-> MetaOk],
      [rc |-> 1, meta |-> MetaRE],
      [rc |-> 1, meta |-> MetaSG] }

\* What the program may print on a channel (bytes).
Outputs == { <<>>, <<97>>, <<97, 32>> }

KeyExitcode == <<"e", "x", "i", "t", "c", "o", "d", "e">>

DigitVal ==
    ("0" :> 0) @@ ("1" :> 1) @@ ("2" :> 2) @@ ("3" :> 3) @@ ("4" :> 4) @@
    ("5" :> 5) @@ ("6" :> 6) @@ ("7" :> 7) @@ ("8" :> 8) @@ ("9" :> 9)

\* int(val) on a string of decimal digits
RECURSIVE ParseInt(_)
ParseInt(s) ==
    IF s = <<>> THEN 0
    ELSE 10 * ParseInt(SubSeq(s, 1, Len(s) - 1)) + DigitVal[s[Len(s)]]

\* line.split(':', 1)
ColonAt(line) == CHOOSE i \in 1..Len(line) :
    line[i] = ":" /\ \A j \in 1..(i - 1) : line[j] # ":"
MetaKey(line) == RemoveHyphens(Strip(SubSeq(line, 1, ColonAt(line) - 1)))
MetaVal(line) == Strip(SubSeq(line, ColonAt(line) + 1, Len(line)))

\* result[key] = val for a key that is not one of the built-in ones
SetExtra(extra, key, val) ==
    {e \in extra : e[1] # key} \cup {<<key, val>>}

\* faulty variant of MergeLine: exitcode is stored like any other key
MergeLineNoOverride(res, line) ==
    [res EXCEPT !.extra = SetExtra(@, MetaKey(line), MetaVal(line))]

\* one iteration of the loop over the lines of /tmp/meta
MergeLine(res, line) ==
    IF MetaKey(line) = KeyExitcode
    THEN [res EXCEPT !.exit_code = Some(ParseInt(MetaVal(line)))]
    ELSE [res EXCEPT !.extra = SetExtra(@, MetaKey(line), MetaVal(line))]

RECURSIVE MergeMeta(_, _)
MergeMeta(res, lines) ==
    IF lines = <<>> THEN res
    ELSE MergeMeta(MergeLine(res, Head(lines)), Tail(lines))

\* ------------------------------------------------------------ tests
NoScript == "none"           \* no <name>.test.py
ScriptNoCheck == "nocheck"   \* a script without a check function
ScriptCheck == "check"       \* a script with a check function
Scripts == {NoScript, ScriptNoCheck, ScriptCheck}

Fixtures == { <<"a">>, <<"a", " ">> }
FixtureOpts == {None} \cup {Some(f) : f \in Fixtures}
ExitCodes == {0, 3}

\* the i-th declared output file: its sandbox path and its expected-content file
FileSpec(i) == [path |-> <<"out", i>>, expected |-> <<"exp", i>>]
FileList(n) == [i \in 1..n |-> FileSpec(i)]

DefaultStdioMaxBytes == 102400

\* Test.__init__
Test(name) ==
    [ name |-> name, stdin |-> None, stdout |-> None, stderr |-> None,
      args |-> <<>>, exit_code |-> 0, files |-> <<>>, filters |-> <<>>,
      title |-> None, script |-> NoScript,
      stdio_max_bytes |-> DefaultStdioMaxBytes ]

\* Test.title
TitleOf(t) == IF t.title # None /\ Get(t.title) # <<>> THEN Get(t.title) ELSE t.name

\* The tests evaluate is run on: Test.__init__ followed by what create_test,
\* load_tests and a generation hook may set. stdio_max_bytes is an attribute
\* of the Test; the model lets it range over 1..MaxCap so that programs
\* printing up to two bytes are cut.
Tests ==
    { [Test("t") EXCEPT !.stdout = x[1], !.stderr = x[2], !.exit_code = x[3],
                        !.files = FileList(x[4]), !.script = x[5],
                        !.stdio_max_bytes = x[6]] :
        x \in FixtureOpts \X FixtureOpts \X ExitCodes \X (0..MaxFiles)
              \X Scripts \X (1..MaxCap) }

\* Content of a file in the sandbox or of an expected-content file in the task
\* directory; None when the file does not exist.
SandboxContents == {None, Some(<<"a">>), Some(<<"a", " ">>)}
ExpectedContents == {None, Some(<<"a">>)}

\* ------------------------------------------------------------ Evaluation.evaluate
\* The result dict at line 198. The echo of stdin and the command string are
\* left out: they are stored and never read again by evaluate.
InitResult(t) ==
    [ name |-> t.name, title |-> TitleOf(t), success |-> TRUE,
      fail_reason |-> <<>>, stdout |-> None, stderr |-> None,
      exit_code |-> None, stdout_expected |-> None, stderr_expected |-> None,
      files |-> <<>>, extra |-> {} ]

InitHist ==
    [ out |-> None, err |-> None, rc |-> None, metaFrom |-> None, metaLines |-> None, preMerge |-> None,
      preCheck |-> None, checkRet |-> None, checkCalls |-> 0, exc |-> None ]

\* p = subprocess.Popen(isolate_cmd, ...): the isolate run of call p starts
StartRun(p) ==
    /\ pc[p] = "start"
    /\ pc' = [pc EXCEPT ![p] = "running"]
    /\ UNCHANGED <<procs, test, efilters, result, meta, hist, tests_dict, load, pipe>>

\* faulty variant of StoreOutput: the output is stored without the slice
StoreNoTruncate(bytes, cap) == Decode(bytes)

\* result['stdout'][0:test.stdio_max_bytes].decode('utf-8')
StoreOutput(bytes, cap) == Decode(Truncate(bytes, cap))

\* p.communicate() returns: isolate has written /tmp/meta; the return code and
\* the truncated output are stored
FinishRun(p) ==
    /\ pc[p] = "running"
    /\ \E out \in Outputs, err \in Outputs, o \in RunOutcomes :
         /\ meta' = [writer |-> p, lines |-> o.meta]
         /\ result' = [result EXCEPT ![p] =
                [@ EXCEPT !.exit_code = Some(o.rc),
                          !.stdout = Some(StoreOutput(out, test[p].stdio_max_bytes)),
                          !.stderr = Some(StoreOutput(err, test[p].stdio_max_bytes))]]
         /\ hist' = [hist EXCEPT ![p].out = Some(out), ![p].err = Some(err),
                                 ![p].rc = Some(o.rc)]
    /\ pc' = [pc EXCEPT ![p] = "compare"]
    /\ UNCHANGED <<procs, test, efilters, tests_dict, load, pipe>>

\* a failed comparison: result['success'] &= False and the reason appended
Mismatch(res, reason) ==
    [res EXCEPT !.success = FALSE, !.fail_reason = Append(@, reason)]

\* faulty variant of CheckStdout: a missing fixture means `must be empty`
CheckStdoutMustBeEmpty(t, res, used_filters) ==
    LET expected == IF t.stdout = None THEN <<>> ELSE Get(t.stdout)
        r == [res EXCEPT !.stdout_expected = Some(expected)]
    IN  IF compare(Get(res.stdout), expected, used_filters) THEN r
        ELSE Mismatch(r, "stdout not matches")

\* if test.stdout: ...
CheckStdout(t, res, used_filters) ==
    IF t.stdout = None THEN res
    ELSE LET r == [res EXCEPT !.stdout_expected = t.stdout]
         IN  IF compare(Get(res.stdout), Get(t.stdout), used_filters) THEN r
             ELSE Mismatch(r, "stdout not matches")

\* if test.stderr: ...
CheckStderr(t, res, used_filters) ==
    IF t.stderr = None THEN res
    ELSE LET r == [res EXCEPT !.stderr_expected = t.stderr]
         IN  IF compare(Get(res.stderr), Get(t.stderr), used_filters) THEN r
             ELSE Mismatch(r, "stderr not matches")

\* the stdout and stderr comparisons, then result['files'] = []
CompareStdio(p) ==
    /\ pc[p] = "compare"
    /\ LET used == efilters \o test[p].filters
       IN  result' = [result EXCEPT ![p] =
               CheckStderr(test[p], CheckStdout(test[p], @, used), used)]
    /\ pc' = [pc EXCEPT ![p] = IF test[p].files = <<>> THEN "meta" ELSE "files"]
    /\ UNCHANGED <<procs, test, efilters, meta, hist, tests_dict, load, pipe>>

\* the entry of a file that was read and compared
FileCompared(f, content, expected, used_filters) ==
    [ path |-> f.path, content |-> Some(content), expected |-> Some(expected),
      success |-> compare(content, expected, used_filters), error |-> None ]

\* the entry the FileNotFoundError handler appends
FileNotFound(f, expected) ==
    [ path |-> f.path, content |-> None, expected |-> Some(expected),
      success |-> FALSE, error |-> Some("file not found") ]

\* one iteration of `for f in test.files`; sb is the file in the sandbox, ex
\* the expected-content file in the task directory. Reading a missing ex
\* raises FileNotFoundError: in the try block it is caught by the handler,
\* which reads ex again, and that one escapes.
EvalFile(p) ==
    /\ pc[p] = "files"
    /\ Len(result[p].files) < Len(test[p].files)
    /\ LET f == test[p].files[Len(result[p].files) + 1]
           used == efilters \o test[p].filters
           last == Len(result[p].files) + 1 = Len(test[p].files)
       IN  \E sb \in SandboxContents, ex \in ExpectedContents :
             IF ex = None
             THEN /\ pc' = [pc EXCEPT ![p] = "raised"]
                  /\ hist' = [hist EXCEPT ![p].exc = Some("FileNotFoundError")]
                  /\ UNCHANGED result
             ELSE /\ pc' = [pc EXCEPT ![p] = IF last THEN "meta" ELSE "files"]
                  /\ LET e == IF sb = None THEN FileNotFound(f, Get(ex))
                              ELSE FileCompared(f, Get(sb), Get(ex), used)
                     IN  result' = [result EXCEPT ![p] =
                             [@ EXCEPT !.files = Append(@, e),
                                       !.success = @ /\ e.success]]
                  /\ UNCHANGED hist
    /\ UNCHANGED <<procs, test, efilters, meta, tests_dict, load, pipe>>

\* with open('/tmp/meta') as f: for line in f: ...
ReadMeta(p) ==
    /\ pc[p] = "meta"
    /\ result' = [result EXCEPT ![p] = MergeMeta(@, meta.lines)]
    /\ hist' = [hist EXCEPT ![p].metaFrom = Some(meta.writer),
                            ![p].metaLines = Some(meta.lines),
                            ![p].preMerge = Some([success |-> result[p].success,
                                                  fail_reason |-> result[p].fail_reason])]
    /\ pc' = [pc EXCEPT ![p] = "check"]
    /\ UNCHANGED <<procs, test, efilters, meta, tests_dict, load, pipe>>

\* faulty variant of CheckedSuccess: result['success'] = check(result, self)
CheckedSuccessAssign(loaded, current, ret) == ret

\* result['success'] &= check(result, self): `loaded` is result['success'] as
\* read before the call, `current` what the dict holds when check returns
CheckedSuccess(loaded, current, ret) == loaded /\ ret

\* the custom checker, if the test has a script with a check function; the
\* checker returns ret and may itself store True into result['success']
Check(p) ==
    /\ pc[p] = "check"
    /\ IF test[p].script = ScriptCheck
       THEN \E ret \in BOOLEAN, writes \in BOOLEAN :
              LET loaded == result[p].success
                  current == IF writes THEN TRUE ELSE loaded
              IN  /\ result' = [result EXCEPT ![p].success =
                                    CheckedSuccess(loaded, current, ret)]
                  /\ hist' = [hist EXCEPT ![p].preCheck = Some(loaded),
                                          ![p].checkRet = Some(ret),
                                          ![p].checkCalls = @ + 1]
       ELSE /\ UNCHANGED result
            /\ hist' = [hist EXCEPT ![p].preCheck = Some(result[p].success)]
    /\ pc' = [pc EXCEPT ![p] = "done"]
    /\ UNCHANGED <<procs, test, efilters, meta, tests_dict, load, pipe>>

IdleLoad == [phase |-> "idle"]
IdlePipe == [phase |-> "idle"]

InitEval(ps, ts) ==
    /\ procs = ps
    /\ test \in [ps -> ts]
    /\ efilters \in FilterChains
    /\ pc = [p \in ps |-> "start"]
    /\ result = [p \in ps |-> InitResult(test[p])]
    /\ hist = [p \in ps |-> InitHist]
    /\ meta = [writer |-> 0, lines |-> MetaOk]

\* one call of Evaluation.evaluate
Init ==
    /\ InitEval({1}, Tests)
    /\ tests_dict = <<>>
    /\ load = IdleLoad
    /\ pipe = IdlePipe

Next ==
    \/ \E p \in procs : StartRun(p)
    \/ \E p \in procs : FinishRun(p)
    \/ \E p \in procs : CompareStdio(p)
    \/ \E p \in procs : EvalFile(p)
    \/ \E p \in procs : ReadMeta(p)
    \/ \E p \in procs : Check(p)

Spec == Init /\ [][Next]_vars

\* ------------------------------------------------------------ two concurrent calls
\* The test two concurrent evaluations on one host run (two submissions of the
\* same task).
ConcTests ==
    { t \in Tests : /\ t.stdout = Some(<<"a">>) /\ t.stderr = None
                    /\ t.exit_code = 0 /\ Len(t.files) = 1
                    /\ t.script = ScriptCheck /\ t.stdio_max_bytes = 1 }

InitConc ==
    /\ InitEval({1, 2}, ConcTests)
    /\ tests_dict = <<>>
    /\ load = IdleLoad
    /\ pipe = IdlePipe

SpecConc == InitConc /\ [][Next]_vars

\* ------------------------------------------------------------ claims on evaluate
Done(p) == pc[p] = "done"
Merged(p) == pc[p] \in {"check", "done"}
UsedFilters(p) == efilters \o test[p].filters

ExitcodeLines(lines) == SelectSeq(lines, LAMBDA l : MetaKey(l) = KeyExitcode)

\* the exit code observed for the run of call p: the metadata `exitcode` if
\* the metadata read has one, else the return code of the process
ObservedExit(p) ==
    LET ls == ExitcodeLines(Get(hist[p].metaLines))
    IN  IF ls # <<>> THEN ParseInt(MetaVal(ls[Len(ls)])) ELSE Get(hist[p].rc)

\* C1: a result whose observed exit code differs from the test's expected
\* exit_code has success = false, whatever the other channels say.
C1_ExitCodeMismatchFails ==
    \A p \in procs :
        (Done(p) /\ ObservedExit(p) # test[p].exit_code) => ~result[p].success

\* C3: an output file missing from the sandbox gives an entry with
\* success = false and error 'file not found', makes the result unsuccessful,
\* the remaining files are still processed, and no exception escapes evaluate
\* because a sandbox file or an expected-content file is missing.
C3_MissingFileIsRecorded ==
    \A p \in procs :
        /\ pc[p] # "raised"
        /\ \A i \in 1..Len(result[p].files) :
             result[p].files[i].content = None =>
                /\ ~result[p].files[i].success
                /\ result[p].files[i].error = Some("file not found")
                /\ ~result[p].success
        /\ Merged(p) => Len(result[p].files) = Len(test[p].files)

StdoutOk(p) ==
    test[p].stdout = None
    \/ compare(Get(result[p].stdout), Get(test[p].stdout), UsedFilters(p))
StderrOk(p) ==
    test[p].stderr = None
    \/ compare(Get(result[p].stderr), Get(test[p].stderr), UsedFilters(p))
FilesOk(p) == \A i \in 1..Len(result[p].files) : result[p].files[i].success
CheckOk(p) == hist[p].checkRet = None \/ Get(hist[p].checkRet)

\* C5: a channel without a fixture is not compared: no expected field, no
\* fail reason for it, and success is decided by the other channels, the files
\* and the checker alone, whatever the program printed on that channel.
C5_UndeclaredChannelIgnored ==
    \A p \in procs : Done(p) =>
        /\ test[p].stdout = None =>
             /\ result[p].stdout_expected = None
             /\ \A i \in 1..Len(result[p].fail_reason) :
                    result[p].fail_reason[i] # "stdout not matches"
             /\ result[p].success = (StderrOk(p) /\ FilesOk(p) /\ CheckOk(p))
        /\ test[p].stderr = None =>
             /\ result[p].stderr_expected = None
             /\ \A i \in 1..Len(result[p].fail_reason) :
                    result[p].fail_reason[i] # "stderr not matches"
             /\ result[p].success = (StdoutOk(p) /\ FilesOk(p) /\ CheckOk(p))

\* a successful result of a test without stdout fixture whose program did
\* print on stdout, and one without stderr fixture that printed on stderr
C5_Witness ==
    \E p \in procs :
        /\ Done(p) /\ result[p].success
        /\ test[p].stdout = None /\ Get(result[p].stdout) # <<>>
        /\ test[p].stderr = None /\ Get(result[p].stderr) # <<>>

OptLen(o) == IF o = None THEN 0 ELSE Len(Get(o))

\* C6 as stated: captured and expected stdout and stderr of a returned result
\* are all at most stdio_max_bytes long.
C6_AllStdioFieldsCapped ==
    \A p \in procs : Done(p) =>
        /\ OptLen(result[p].stdout) <= test[p].stdio_max_bytes
        /\ OptLen(result[p].stderr) <= test[p].stdio_max_bytes
        /\ OptLen(result[p].stdout_expected) <= test[p].stdio_max_bytes
        /\ OptLen(result[p].stderr_expected) <= test[p].stdio_max_bytes

IsPrefix(s, t) == Len(s) <= Len(t) /\ \A i \in 1..Len(s) : s[i] = t[i]
MinOf(a, b) == IF a < b THEN a ELSE b

\* C6 amended: the captured stdout and stderr are the first stdio_max_bytes
\* bytes of what the program printed; the expected fields hold the whole
\* fixture, whatever its length.
C6_CapturedCappedExpectedWhole ==
    \A p \in procs : Done(p) =>
        /\ Len(Get(result[p].stdout)) =
               MinOf(Len(Get(hist[p].out)), test[p].stdio_max_bytes)
        /\ Len(Get(result[p].stderr)) =
               MinOf(Len(Get(hist[p].err)), test[p].stdio_max_bytes)
        /\ IsPrefix(Get(result[p].stdout), Decode(Get(hist[p].out)))
        /\ IsPrefix(Get(result[p].stderr), Decode(Get(hist[p].err)))
        /\ result[p].stdout_expected = test[p].stdout
        /\ result[p].stderr_expected = test[p].stderr

\* the program printed more than the cap on both channels and both fixtures
\* are longer than the cap
C6_Witness ==
    \E p \in procs :
        /\ Done(p)
        /\ Len(Get(hist[p].out)) > test[p].stdio_max_bytes
        /\ Len(Get(hist[p].err)) > test[p].stdio_max_bytes
        /\ OptLen(result[p].stdout_expected) > test[p].stdio_max_bytes
        /\ OptLen(result[p].stderr_expected) > test[p].stdio_max_bytes

KeyCgmem == <<"c", "g", "m", "e", "m">>

\* C7: after the merge exit_code is the metadata exitcode if there is one and
\* the return code otherwise, every other line is stored under its key without
\* hyphens, and success and fail_reason are what they were before the merge.
C7_MetadataMerge ==
    \A p \in procs : pc[p] = "check" =>
        LET lines == Get(hist[p].metaLines) IN
        /\ result[p].exit_code = Some(ObservedExit(p))
        /\ \A i \in 1..Len(lines) :
             MetaKey(lines[i]) # KeyExitcode =>
                /\ <<MetaKey(lines[i]), MetaVal(lines[i])>> \in result[p].extra
                /\ \A j \in 1..Len(MetaKey(lines[i])) : MetaKey(lines[i])[j] # "-"
        /\ (\E i \in 1..Len(lines) : lines[i] = LnCgMem) =>
                <<KeyCgmem, <<"6", "4">>>> \in result[p].extra
        /\ \A e \in result[p].extra : e[1] # KeyExitcode
        /\ result[p].success = Get(hist[p].preMerge).success
        /\ result[p].fail_reason = Get(hist[p].preMerge).fail_reason

\* the process returned 1 and the metadata says exitcode 3, after a failed
\* built-in comparison
C7_Witness ==
    \E p \in procs :
        /\ pc[p] = "check"
        /\ hist[p].rc = Some(1)
        /\ result[p].exit_code = Some(3)
        /\ ~result[p].success

\* C9: the checker is called at most once, after the comparisons and the
\* metadata merge, and success is the success of the built-in comparisons
\* ANDed with what the checker returned.
C9_CheckerAnded ==
    \A p \in procs :
        /\ hist[p].checkCalls <= 1
        /\ hist[p].checkCalls = 1 =>
             /\ Done(p)
             /\ test[p].script = ScriptCheck
             /\ hist[p].preMerge # None
             /\ Len(result[p].files) = Len(test[p].files)
        /\ ~Done(p) => hist[p].checkCalls = 0
        /\ Done(p) =>
             /\ hist[p].checkCalls = 1 <=> test[p].script = ScriptCheck
             /\ Get(hist[p].preMerge).success = (StdoutOk(p) /\ StderrOk(p) /\ FilesOk(p))
             /\ result[p].success = (Get(hist[p].preMerge).success /\ CheckOk(p))

\* a checker that returned true after a built-in comparison had failed
C9_Witness ==
    \E p \in procs :
        /\ Done(p) /\ hist[p].checkCalls = 1
        /\ hist[p].checkRet = Some(TRUE)
        /\ ~Get(hist[p].preMerge).success
        /\ ~result[p].success

\* C10: a result made unsuccessful by a built-in comparison (stdout, stderr,
\* output file mismatch, output file not found) has a non-empty fail_reason.
C10_FailureHasReason ==
    \A p \in procs : Done(p) =>
        (~(StdoutOk(p) /\ StderrOk(p) /\ FilesOk(p)) => result[p].fail_reason # <<>>)

\* C4: runs and metadata reads of concurrent evaluations do not interleave, so
\* every call reads the metadata record its own run wrote.
C4_ReadsOwnMetadata ==
    \A p \in procs : hist[p].metaFrom # None => hist[p].metaFrom = Some(p)

\* ------------------------------------------------------------ Evaluation.load_tests
\* Names of tests; the default name of a config entry is 'test <count>'.
NameA == <<"a">>
NameB == <<"b">>
NameG == <<"g">>
DefaultName(n) == <<"test ", n>>

\* Fixture files a task directory may hold, as <<test name, extension>>.
FixtureFiles ==
    { <<NameA, "out">>, <<NameA, "err">>, <<NameA, "in">>,
      <<NameB, "out">>, <<NameB, "test.py">> }
GlobExts == <<"out", "err", "test.py">>

\* File(path) of a fixture: the model keeps the content read through it
FixtureFile(name, ext) == Some(<<"a">>)

\* name in self.tests_dict: the position of the entry, 0 if there is none
Lookup(d, name) ==
    IF \E i \in 1..Len(d) : d[i].key = name
    THEN CHOOSE i \in 1..Len(d) : d[i].key = name
    ELSE 0

\* Test(name) with the fixtures found in the task directory attached
NewTest(dir, name) ==
    [Test(name) EXCEPT
        !.stdout = IF <<name, "out">> \in dir THEN FixtureFile(name, "out") ELSE None,
        !.stderr = IF <<name, "err">> \in dir THEN FixtureFile(name, "err") ELSE None,
        !.stdin = IF <<name, "in">> \in dir THEN FixtureFile(name, "in") ELSE None,
        !.script = IF <<name, "test.py">> \in dir THEN ScriptCheck ELSE NoScript]

\* faulty variant of create_test: a new Test replaces the registered one
create_test_overwrite(d, dir, name, oid) ==
    LET e == [key |-> name, oid |-> oid, val |-> NewTest(dir, name)]
    IN  IF Lookup(d, name) # 0 THEN [d EXCEPT ![Lookup(d, name)] = e]
        ELSE Append(d, e)

\* Evaluation.create_test: the registry after the call; oid is the identity of
\* the Test object the call would construct
create_test(d, dir, name, oid) ==
    IF Lookup(d, name) # 0 THEN d
    ELSE Append(d, [key |-> name, oid |-> oid, val |-> NewTest(dir, name)])

\* the files matching *.<ext> for the ext-th extension of the loop
Matches(dir, ext) == {f[1] : f \in {g \in dir : g[2] = GlobExts[ext]}}

\* where the glob loops stand once `pending` of extension ext is to be done:
\* the first extension from ext on that still has files, or the config phase
RECURSIVE GlobAt(_, _, _)
GlobAt(dir, ext, pending) ==
    IF pending # {} THEN [phase |-> "glob", ext |-> ext, pending |-> pending]
    ELSE IF ext = Len(GlobExts) THEN [phase |-> "config", ext |-> ext, pending |-> {}]
    ELSE GlobAt(dir, ext + 1, Matches(dir, ext + 1))

\* what the last create_test call did
Registered(name, d, via) ==
    [name |-> name, existed |-> Lookup(d, name) # 0, via |-> via]

\* one iteration of the glob loops: create_test(test_name) for a matching file
Discover ==
    /\ load.phase = "glob"
    /\ \E name \in load.pending :
         /\ tests_dict' = create_test(tests_dict, load.dir, name, load.nextOid)
         /\ load' = [load EXCEPT
                !.phase = GlobAt(load.dir, load.ext, load.pending \ {name}).phase,
                !.ext = GlobAt(load.dir, load.ext, load.pending \ {name}).ext,
                !.pending = GlobAt(load.dir, load.ext, load.pending \ {name}).pending,
                !.nextOid = @ + 1,
                !.last = Some(Registered(name, tests_dict, "glob"))]
    /\ UNCHANGED <<evalVars, pipe>>

\* Entries of the `tests:` list of config.yml; an absent key is None.
ConfEntries ==
    [ name : {None, Some(NameA)},
      title : {None}, exit_code : {None}, args : {None}, files : {<<>>} ]
    \cup
    [ name : {None, Some(NameA)},
      title : {Some(<<"T">>)}, exit_code : {Some(3)}, args : {Some(<<"x">>)},
      files : {<<FileSpec(1)>>} ]

OrElse(o, default) == IF o = None THEN default ELSE Get(o)

\* the assignments load_tests makes to the Test a config entry names
ApplyConf(t, c) ==
    [t EXCEPT !.title = Some(OrElse(c.title, t.name)),
              !.exit_code = OrElse(c.exit_code, 0),
              !.args = OrElse(c.args, <<>>),
              !.files = @ \o c.files]

\* config.yml is read: its filters are appended to Evaluation.filters
OpenConfig ==
    /\ load.phase = "config"
    /\ \E fc \in FilterChains : efilters' = efilters \o fc
    /\ load' = [load EXCEPT !.phase = "tests"]
    /\ UNCHANGED <<procs, pc, test, result, meta, hist, tests_dict, pipe>>

\* there is no config.yml (FileNotFoundError), or it is empty
NoConfig ==
    /\ load.phase = "config"
    /\ load' = [load EXCEPT !.phase = "hook"]
    /\ UNCHANGED <<evalVars, tests_dict, pipe>>

\* one iteration of `for test_conf in conf.get('tests', [])`
ConfigTest ==
    /\ load.phase = "tests"
    /\ load.confDone < MaxConfTests
    /\ \E c \in ConfEntries :
         LET name == OrElse(c.name, DefaultName(Len(tests_dict)))
             d == create_test(tests_dict, load.dir, name, load.nextOid)
             i == Lookup(d, name)
         IN  /\ tests_dict' = [d EXCEPT ![i].val = ApplyConf(@, c)]
             /\ load' = [load EXCEPT
                    !.confDone = @ + 1,
                    !.nextOid = @ + 1,
                    !.last = Some(Registered(name, tests_dict, "config"))]
    /\ UNCHANGED <<evalVars, pipe>>

\* the `tests:` list is exhausted
EndConfig ==
    /\ load.phase = "tests"
    /\ load' = [load EXCEPT !.phase = "hook"]
    /\ UNCHANGED <<evalVars, tests_dict, pipe>>

GenNames == {NameA, NameG}

\* a create_test call made by gen_tests(self) of script.py
GenTest ==
    /\ load.phase = "hook"
    /\ load.genDone < MaxGenTests
    /\ \E name \in GenNames :
         /\ tests_dict' = create_test(tests_dict, load.dir, name, load.nextOid)
         /\ load' = [load EXCEPT
                !.genDone = @ + 1,
                !.nextOid = @ + 1,
                !.last = Some(Registered(name, tests_dict, "hook"))]
    /\ UNCHANGED <<evalVars, pipe>>

\* gen_tests returns, or there is no script.py or no gen_tests in it
EndLoad ==
    /\ load.phase = "hook"
    /\ load' = [load EXCEPT !.phase = "done"]
    /\ UNCHANGED <<evalVars, tests_dict, pipe>>

\* Evaluation.__init__ up to the call of load_tests, on any task directory
InitLoad ==
    /\ procs = {}
    /\ pc = <<>> /\ test = <<>> /\ result = <<>> /\ hist = <<>>
    /\ efilters = <<>>
    /\ meta = [writer |-> 0, lines |-> MetaOk]
    /\ tests_dict = <<>>
    /\ \E dir \in SUBSET FixtureFiles :
         load = [ phase |-> GlobAt(dir, 1, Matches(dir, 1)).phase,
                  ext |-> GlobAt(dir, 1, Matches(dir, 1)).ext,
                  pending |-> GlobAt(dir, 1, Matches(dir, 1)).pending,
                  dir |-> dir, confDone |-> 0, genDone |-> 0, nextOid |-> 1,
                  last |-> None ]
    /\ pipe = IdlePipe

NextLoad ==
    \/ Discover
    \/ OpenConfig
    \/ NoConfig
    \/ ConfigTest
    \/ EndConfig
    \/ GenTest
    \/ EndLoad

SpecLoad == InitLoad /\ [][NextLoad]_vars

UniqueNames(d) == \A i, j \in 1..Len(d) : d[i].key = d[j].key => i = j

\* C2 as stated: one Test per name, the first one registered, and no step of
\* the load changes a registered Test.
C2_RegisteredTestNeverChanges ==
    [][ /\ UniqueNames(tests_dict')
        /\ \A i \in 1..Len(tests_dict) : tests_dict'[i] = tests_dict[i] ]_vars

\* what the fixtures of the task directory decide
FixturePart(t) ==
    [name |-> t.name, stdin |-> t.stdin, stdout |-> t.stdout,
     stderr |-> t.stderr, script |-> t.script]

\* C2 amended: one Test per name, the object first created under the name
\* stays in the registry with the fixtures attached at creation; fixture
\* discovery and the generation hook leave a registered Test as it is, and
\* only a `tests:` entry of the config changes one: it stores title,
\* exit_code and args anew and appends its files.
C2_FirstObjectKept ==
    [][ /\ UniqueNames(tests_dict')
        /\ \A i \in 1..Len(tests_dict) :
             /\ Len(tests_dict') >= i
             /\ tests_dict'[i].key = tests_dict[i].key
             /\ tests_dict'[i].oid = tests_dict[i].oid
             /\ tests_dict'[i].val.name = tests_dict[i].key
             /\ FixturePart(tests_dict'[i].val) = FixturePart(tests_dict[i].val)
             /\ IsPrefix(tests_dict[i].val.files, tests_dict'[i].val.files)
             /\ load.phase # "tests" => tests_dict'[i] = tests_dict[i] ]_vars

\* a name is registered a second time by the generation hook after a config
\* entry had set the attributes of the Test it names
C2_Witness ==
    /\ load.last # None
    /\ Get(load.last).existed
    /\ Get(load.last).via = "hook"
    /\ \E i \in 1..Len(tests_dict) :
         /\ tests_dict[i].key = Get(load.last).name
         /\ tests_dict[i].val.exit_code = 3
         /\ tests_dict[i].val.stdout # None

\* ------------------------------------------------------------ evaluate (entry point)
StageNames == <<"download", "normal run", "run with sanitizer">>

\* What pipe.run(evaluation) may return: None, an empty dict, the bundle of a
\* failed compilation, or the bundle of a compilation with the test results.
StageReturns ==
    { None, Some(<<>>),
      Some([gcc |-> "error"]),
      Some([gcc |-> "ok", tests |-> <<>>]),
      Some([gcc |-> "ok", tests |-> <<TRUE, FALSE>>]) }

\* `if res:` is false for None and for an empty dict
Truthy(res) == res # None /\ DOMAIN Get(res) # {}

\* {'name': name, **res}: the keys of res come last and win
Tagged(name, res) ==
    [k \in {"name"} \cup DOMAIN res |-> IF k \in DOMAIN res THEN res[k] ELSE name]

\* faulty variant of Collect: an entry is appended whatever res is
CollectAlways(acc, name, res) ==
    Append(acc, Tagged(name, IF res = None THEN <<>> ELSE Get(res)))

\* if res: result.append({'name': name, **res})
Collect(acc, name, res) ==
    IF Truthy(res) THEN Append(acc, Tagged(name, Get(res))) ELSE acc

\* Sandbox(), Evaluation(...) and the copy of the submission: either all
\* succeed or an exception of one of them ends the call
Setup ==
    /\ pipe.phase = "setup"
    /\ \E ok \in BOOLEAN : pipe' = [pipe EXCEPT !.phase = IF ok THEN "stage" ELSE "raised"]
    /\ UNCHANGED <<evalVars, tests_dict, load>>

\* res = pipe.run(evaluation) is called for the next stage of the list
StageCall ==
    /\ pipe.phase = "stage"
    /\ pipe' = [pipe EXCEPT !.phase = "call",
                            !.log = Append(@, <<"call", StageNames[pipe.i]>>)]
    /\ UNCHANGED <<evalVars, tests_dict, load>>

\* pipe.run returns res; the bundle is collected and the loop goes on
StageReturn ==
    /\ pipe.phase = "call"
    /\ \E res \in StageReturns :
         pipe' = [pipe EXCEPT
            !.phase = IF pipe.i = Len(StageNames) THEN "done" ELSE "stage",
            !.i = @ + 1,
            !.result = Collect(@, StageNames[pipe.i], res),
            !.returned = Append(@, res),
            !.log = Append(@, <<"return", StageNames[pipe.i]>>)]
    /\ UNCHANGED <<evalVars, tests_dict, load>>

InitPipe ==
    /\ procs = {}
    /\ pc = <<>> /\ test = <<>> /\ result = <<>> /\ hist = <<>>
    /\ efilters = <<>>
    /\ meta = [writer |-> 0, lines |-> MetaOk]
    /\ tests_dict = <<>>
    /\ load = IdleLoad
    /\ pipe = [phase |-> "setup", i |-> 1, result |-> <<>>, returned |-> <<>>,
               log |-> <<>>]

NextPipe ==
    \/ Setup
    \/ StageCall
    \/ StageReturn

SpecPipe == InitPipe /\ [][NextPipe]_vars

\* the calls and returns of a complete run, in the fixed order
FullLog ==
    << <<"call", "download">>, <<"return", "download">>,
       <<"call", "normal run">>, <<"return", "normal run">>,
       <<"call", "run with sanitizer">>, <<"return", "run with sanitizer">> >>

\* the entries expected for the returns of the first n stages
RECURSIVE ExpectedEntries(_, _)
ExpectedEntries(returned, n) ==
    IF n = 0 THEN <<>>
    ELSE LET r == returned[n]
             before == ExpectedEntries(returned, n - 1)
         IN  IF r = None \/ Get(r) = <<>> THEN before
             ELSE Append(before, [k \in {"name"} \cup DOMAIN Get(r) |->
                                     IF k = "name" THEN StageNames[n] ELSE Get(r)[k]])

\* C8: the stages run one after another in the order download, normal run,
\* run with sanitizer, and the list returned holds, in that order, one entry
\* tagged with the stage name per stage that returned a non-empty bundle.
C8_StagesInOrder ==
    pipe.phase # "idle" =>
        /\ IsPrefix(pipe.log, FullLog)
        /\ pipe.phase = "call" <=> Len(pipe.log) % 2 = 1
        /\ pipe.result = ExpectedEntries(pipe.returned, Len(pipe.returned))
        /\ pipe.phase = "done" =>
             /\ pipe.log = FullLog
             /\ Len(pipe.returned) = Len(StageNames)
             /\ \A j \in 1..Len(pipe.result) : pipe.result[j].name \in
                    {StageNames[n] : n \in {m \in 1..Len(StageNames) : Truthy(pipe.returned[m])}}

\* download returned nothing, the normal run an empty dict, the sanitizer run
\* a bundle: the list returned has the one entry of the sanitizer run
C8_Witness ==
    /\ pipe.phase = "done"
    /\ pipe.returned[1] = None
    /\ pipe.returned[2] = Some(<<>>)
    /\ Truthy(pipe.returned[3])
    /\ Len(pipe.result) = 1
    /\ pipe.result[1].name = "run with sanitizer"

====
